---- MODULE Spec2Model ----
(***************************************************************************)
(* Slack attendance recorder: the dedup set, the raw_logs and              *)
(* daily_summary sheets, the logEvent pipeline with its suspension points, *)
(* and the daily summary calculator.                                       *)
(*                                                                         *)
(* JavaScript strings that the code takes apart or builds (times, slack    *)
(* timestamps, keywords, formatted durations, dedup keys) are sequences of *)
(* one-character strings. Arrays are sequences: JS index i is index i+1.   *)
(***************************************************************************)
EXTENDS Integers, Sequences, FiniteSets, TLC

VARIABLES
  processedEvents,  \* GoogleSheetsService.processedEvents, in insertion order
  rawLogs,          \* the raw_logs sheet
  dailySummary,     \* the daily_summary sheet
  proc,             \* the logEvent calls in flight or finished
  calls,            \* the isEventProcessed calls made so far, with results
  calc,             \* the local values of the last summary recomputation
  util              \* the last call of extractKeyword or formatDuration

vars == <<processedEvents, rawLogs, dailySummary, proc, calls, calc, util>>

(***************************************************************************)
(* Bounds of the model                                                     *)
(***************************************************************************)
\* number of logEvent deliveries in one run of the pipeline specification
MaxDeliveries == 2
\* number of stored raw-log rows in the calculator specification
MaxLogs == 5
\* number of isEventProcessed calls in one run of the dedup specification
MaxCalls == 3
\* number of fragments a message text is made of
MaxFragments == 2
\* largest minute count handed to formatDuration
MaxMinutes == 1500

(***************************************************************************)
(* JavaScript primitives used by the code                                  *)
(***************************************************************************)
Digits == <<"0", "1", "2", "3", "4", "5", "6", "7", "8", "9">>

IsDigit(c) == \E d \in 1..10 : Digits[d] = c

DigitVal(c) == (CHOOSE d \in 1..10 : Digits[d] = c) - 1

\* the value parseInt gives when no number can be read; every number the
\* code computes from well-formed times is >= 0, so a negative integer
\* stands for it
NaN == 0 - 1

\* a - b, a + b, a <= b and a > b of JavaScript numbers: NaN makes a sum or a
\* difference NaN and every comparison false
minus(a, b) == IF a = NaN \/ b = NaN THEN NaN ELSE a - b

plus(a, b) == IF a = NaN \/ b = NaN THEN NaN ELSE a + b

lessEq(a, b) == a # NaN /\ b # NaN /\ a <= b

greater(a, b) == a # NaN /\ b # NaN /\ a > b

\* String.prototype.split(sep) for a one-character separator
RECURSIVE SplitAcc(_, _, _, _)
SplitAcc(s, sep, cur, acc) ==
  IF s = <<>> THEN Append(acc, cur)
  ELSE IF Head(s) = sep THEN SplitAcc(Tail(s), sep, <<>>, Append(acc, cur))
  ELSE SplitAcc(Tail(s), sep, Append(cur, Head(s)), acc)

Split(s, sep) == SplitAcc(s, sep, <<>>, <<>>)

\* parseInt(str, 10): the leading run of digits, NaN when there is none
RECURSIVE ParseDigits(_, _, _)
ParseDigits(s, acc, any) ==
  IF s = <<>> \/ ~IsDigit(Head(s)) THEN (IF any THEN acc ELSE NaN)
  ELSE ParseDigits(Tail(s), acc * 10 + DigitVal(Head(s)), TRUE)

parseInt(s) == ParseDigits(s, 0, FALSE)

\* Number.prototype.toString() of a non-negative integer
RECURSIVE toString(_)
toString(n) ==
  IF n < 10 THEN <<Digits[n + 1]>>
  ELSE toString(n \div 10) \o <<Digits[(n % 10) + 1]>>

\* String.prototype.padStart(2, '0')
padStart2(s) == IF Len(s) < 2 THEN <<"0">> \o s ELSE s

(***************************************************************************)
(* utils/helpers.js                                                        *)
(***************************************************************************)
KW_ENTRY        == <<"#", "e", "n", "t", "r", "y">>
KW_EXIT         == <<"#", "e", "x", "i", "t">>
KW_DAILY_TASK   == <<"#", "d", "a", "i", "l", "y", "-", "t", "a", "s", "k">>
KW_DAILY_REPORT == <<"#", "d", "a", "i", "l", "y", "-", "r", "e", "p", "o", "r", "t">>
KW_LUNCH_START  == <<"#", "l", "u", "n", "c", "h", "s", "t", "a", "r", "t">>
KW_LUNCH_END    == <<"#", "l", "u", "n", "c", "h", "e", "n", "d">>
KW_BREAK_START  == <<"#", "b", "r", "e", "a", "k", "s", "t", "a", "r", "t">>
KW_BREAK_END    == <<"#", "b", "r", "e", "a", "k", "e", "n", "d">>

ALL_KEYWORDS == <<KW_ENTRY, KW_EXIT, KW_DAILY_TASK, KW_DAILY_REPORT,
                  KW_LUNCH_START, KW_LUNCH_END, KW_BREAK_START, KW_BREAK_END>>

\* String.prototype.toLowerCase on the letters A to Z
UpperCase == <<"A", "B", "C", "D", "E", "F", "G", "H", "I", "J", "K", "L", "M",
               "N", "O", "P", "Q", "R", "S", "T", "U", "V", "W", "X", "Y", "Z">>

LowerCase == <<"a", "b", "c", "d", "e", "f", "g", "h", "i", "j", "k", "l", "m",
               "n", "o", "p", "q", "r", "s", "t", "u", "v", "w", "x", "y", "z">>

toLowerCase(text) ==
  [i \in 1..Len(text) |->
     IF \E k \in 1..26 : UpperCase[k] = text[i]
     THEN LowerCase[CHOOSE k \in 1..26 : UpperCase[k] = text[i]]
     ELSE text[i]]

\* String.prototype.includes
includes(text, keyword) ==
  \E i \in 1..(Len(text) - Len(keyword) + 1) :
    SubSeq(text, i, i + Len(keyword) - 1) = keyword

\* the null extractKeyword returns when no keyword is found
null == <<>>

\* the for loop of extractKeyword from the k-th keyword on
RECURSIVE firstKeywordIn(_, _)
firstKeywordIn(lowerText, k) ==
  IF k > Len(ALL_KEYWORDS) THEN null
  ELSE IF includes(lowerText, ALL_KEYWORDS[k]) THEN ALL_KEYWORDS[k]
  ELSE firstKeywordIn(lowerText, k + 1)

\* extractKeyword searching the text as it was written (mutation)
extractKeyword_caseSensitive(text) == firstKeywordIn(text, 1)

\* extractKeyword(text)
extractKeyword(text) == firstKeywordIn(toLowerCase(text), 1)

\* the '-' written where a time is missing
Dash == <<"-">>

\* timeToMinutes(timeStr): hours * 60 + minutes, the seconds are dropped
timeToMinutes(timeStr) ==
  IF timeStr = <<>> \/ timeStr = Dash THEN 0
  ELSE LET parts   == Split(timeStr, ":")
           hours   == parseInt(parts[1])
           minutes == IF Len(parts) >= 2 THEN parseInt(parts[2]) ELSE NaN
       IN IF hours = NaN \/ minutes = NaN THEN NaN ELSE hours * 60 + minutes

(***************************************************************************)
(* services/attendance.js: the calculator                                  *)
(* A raw_logs row is <<date, time, employeeName, channelName, keyword>>,   *)
(* so log[1] of the code is row[2], log[2] is row[3], log[4] is row[5].    *)
(***************************************************************************)
\* Array.prototype.sort with the comparator (a, b) => a.minutes - b.minutes
\* on a sequence of records with a minutes field: ascending and stable. The
\* sort takes a comparator result of NaN as 0, so an element with NaN minutes
\* stays behind the elements it is compared with.
RECURSIVE insertByMinutes(_, _)
insertByMinutes(sorted, x) ==
  IF sorted = <<>> THEN <<x>>
  ELSE IF ~greater(minus(Head(sorted).minutes, x.minutes), 0)
       THEN <<Head(sorted)>> \o insertByMinutes(Tail(sorted), x)
       ELSE <<x>> \o sorted

RECURSIVE sortByMinutes(_)
sortByMinutes(s) ==
  IF s = <<>> THEN <<>>
  ELSE insertByMinutes(sortByMinutes(SubSeq(s, 1, Len(s) - 1)), s[Len(s)])

\* userLogs.sort((a, b) => timeToMinutes(a[1]) - timeToMinutes(b[1]))
sortLogs(userLogs) ==
  LET keyed  == [i \in 1..Len(userLogs) |->
                   [minutes |-> timeToMinutes(userLogs[i][2]),
                    log     |-> userLogs[i]]]
      sorted == sortByMinutes(keyed)
  IN [i \in 1..Len(sorted) |-> sorted[i].log]

\* Array.prototype.filter on the keyword column
filterKeyword(userLogs, keyword) ==
  SelectSeq(userLogs, LAMBDA log : log[5] = keyword)

\* calculateDuration giving the distance of the two times, whichever is
\* later (mutation)
calculateDuration_unordered(startTime, endTime) ==
  IF startTime = Dash \/ endTime = Dash THEN 0
  ELSE LET startMinutes == timeToMinutes(startTime)
           endMinutes   == timeToMinutes(endTime)
       IN IF endMinutes <= startMinutes THEN startMinutes - endMinutes
          ELSE endMinutes - startMinutes

\* calculateDuration(startTime, endTime)
calculateDuration(startTime, endTime) ==
  IF startTime = Dash \/ endTime = Dash THEN 0
  ELSE LET startMinutes == timeToMinutes(startTime)
           endMinutes   == timeToMinutes(endTime)
       IN IF lessEq(endMinutes, startMinutes) THEN 0
          ELSE minus(endMinutes, startMinutes)

\* calculateLunchDuration taking the last #lunchend row instead of the first
\* (mutation)
calculateLunchDuration_lastEnd(userLogs) ==
  LET lunchStarts == filterKeyword(userLogs, KW_LUNCH_START)
      lunchEnds   == filterKeyword(userLogs, KW_LUNCH_END)
  IN IF lunchStarts = <<>> \/ lunchEnds = <<>> THEN 0
     ELSE LET startMinutes == timeToMinutes(lunchStarts[1][2])
              endMinutes   == timeToMinutes(lunchEnds[Len(lunchEnds)][2])
          IN IF endMinutes > startMinutes THEN endMinutes - startMinutes
             ELSE 0

\* calculateLunchDuration(userLogs): find() gives the first row of each kind
calculateLunchDuration(userLogs) ==
  LET lunchStarts == filterKeyword(userLogs, KW_LUNCH_START)
      lunchEnds   == filterKeyword(userLogs, KW_LUNCH_END)
  IN IF lunchStarts = <<>> \/ lunchEnds = <<>> THEN 0
     ELSE LET startMinutes == timeToMinutes(lunchStarts[1][2])
              endMinutes   == timeToMinutes(lunchEnds[1][2])
          IN IF greater(endMinutes, startMinutes)
             THEN minus(endMinutes, startMinutes)
             ELSE 0

\* the inner loop without the !usedEnds.has(i) test (mutation)
RECURSIVE firstFreeEnd_reusingEnds(_, _, _, _)
firstFreeEnd_reusingEnds(breakEnds, usedEnds, start, i) ==
  IF i > Len(breakEnds) THEN 0
  ELSE IF breakEnds[i].minutes > start.minutes THEN i
  ELSE firstFreeEnd_reusingEnds(breakEnds, usedEnds, start, i + 1)

\* the inner for loop of calculateBreakDuration: the first index i, from i on,
\* with breakEnds[i] unused and later than the start; 0 when there is none
RECURSIVE firstFreeEnd(_, _, _, _)
firstFreeEnd(breakEnds, usedEnds, start, i) ==
  IF i > Len(breakEnds) THEN 0
  ELSE IF i \notin usedEnds /\ greater(breakEnds[i].minutes, start.minutes)
       THEN i
  ELSE firstFreeEnd(breakEnds, usedEnds, start, i + 1)

\* the outer for loop of calculateBreakDuration, from start number k on
RECURSIVE matchBreaks(_, _, _, _, _)
matchBreaks(breakStarts, breakEnds, k, usedEnds, totalBreakMinutes) ==
  IF k > Len(breakStarts) THEN totalBreakMinutes
  ELSE LET i == firstFreeEnd(breakEnds, usedEnds, breakStarts[k], 1)
       IN IF i = 0
          THEN matchBreaks(breakStarts, breakEnds, k + 1, usedEnds,
                           totalBreakMinutes)
          ELSE matchBreaks(breakStarts, breakEnds, k + 1, usedEnds \cup {i},
                           plus(totalBreakMinutes,
                                minus(breakEnds[i].minutes,
                                      breakStarts[k].minutes)))

\* the breaks the loops of calculateBreakDuration log, one per matched pair:
\* the numbers of the start and of the end in their sorted arrays, and
\* breakTime
RECURSIVE matchedBreaks(_, _, _, _, _)
matchedBreaks(breakStarts, breakEnds, k, usedEnds, logged) ==
  IF k > Len(breakStarts) THEN logged
  ELSE LET i == firstFreeEnd(breakEnds, usedEnds, breakStarts[k], 1)
       IN IF i = 0
          THEN matchedBreaks(breakStarts, breakEnds, k + 1, usedEnds, logged)
          ELSE matchedBreaks(breakStarts, breakEnds, k + 1, usedEnds \cup {i},
                             Append(logged,
                                    [start     |-> k,
                                     end       |-> i,
                                     breakTime |-> minus(breakEnds[i].minutes,
                                                         breakStarts[k].minutes)]))

\* userLogs.filter(keyword).map(log => ({time, minutes})).sort(by minutes)
breakEventsOf(userLogs, keyword) ==
  LET rows == filterKeyword(userLogs, keyword)
  IN sortByMinutes([i \in 1..Len(rows) |->
                      [time    |-> rows[i][2],
                       minutes |-> timeToMinutes(rows[i][2])]])

\* the breaks calculateBreakDuration(userLogs) logs
loggedBreaks(userLogs) ==
  matchedBreaks(breakEventsOf(userLogs, KW_BREAK_START),
                breakEventsOf(userLogs, KW_BREAK_END), 1, {}, <<>>)

\* calculateBreakDuration taking the time from the first start to the last
\* end as the break total (mutation)
calculateBreakDuration_firstToLast(userLogs) ==
  LET breakStarts == breakEventsOf(userLogs, KW_BREAK_START)
      breakEnds   == breakEventsOf(userLogs, KW_BREAK_END)
  IN IF breakStarts = <<>> \/ breakEnds = <<>> THEN 0
     ELSE IF greater(breakEnds[Len(breakEnds)].minutes, breakStarts[1].minutes)
          THEN minus(breakEnds[Len(breakEnds)].minutes, breakStarts[1].minutes)
          ELSE 0

\* calculateBreakDuration(userLogs)
calculateBreakDuration(userLogs) ==
  matchBreaks(breakEventsOf(userLogs, KW_BREAK_START),
              breakEventsOf(userLogs, KW_BREAK_END), 1, {}, 0)

\* countBreaks(userLogs)
countBreaks(userLogs) ==
  LET breakStarts == filterKeyword(userLogs, KW_BREAK_START)
      breakEnds   == filterKeyword(userLogs, KW_BREAK_END)
  IN IF Len(breakStarts) <= Len(breakEnds) THEN Len(breakStarts)
     ELSE Len(breakEnds)

\* formatDuration without padStart(2, '0') (mutation)
formatDuration_unpadded(minutes) ==
  IF minutes = 0 \/ minutes = NaN THEN <<"0", ":", "0", "0">>
  ELSE LET hours == minutes \div 60
           mins  == minutes % 60
       IN toString(hours) \o <<":">> \o toString(mins)

\* formatDuration(minutes)
formatDuration(minutes) ==
  IF minutes = 0 \/ minutes = NaN THEN <<"0", ":", "0", "0">>
  ELSE LET hours == minutes \div 60
           mins  == minutes % 60
       IN toString(hours) \o <<":">> \o padStart2(toString(mins))

\* Math.max(0, x): NaN when x is NaN
max0(x) == IF x = NaN THEN NaN ELSE IF x > 0 THEN x ELSE 0

\* the net working time with the breaks not deducted (mutation)
netWorkingHoursOf_withoutBreaks(grossWorkingTime, lunchDuration, breakDuration) ==
  max0(grossWorkingTime - lunchDuration)

\* const netWorkingHours =
\*   Math.max(0, grossWorkingTime - lunchDuration - breakDuration)
netWorkingHoursOf(grossWorkingTime, lunchDuration, breakDuration) ==
  max0(minus(minus(grossWorkingTime, lunchDuration), breakDuration))

\* the local values of AttendanceService.updateDailySummary, from the rows
\* getDailyLogs returned up to the summaryData handed to the sheet service
summaryLocals(dailyLogs, date, employeeName) ==
  LET userLogs         == sortLogs(SelectSeq(dailyLogs,
                                     LAMBDA log : log[3] = employeeName))
      entryLogs        == filterKeyword(userLogs, KW_ENTRY)
      entryTime        == IF entryLogs # <<>> THEN entryLogs[1][2] ELSE Dash
      exitLogs         == filterKeyword(userLogs, KW_EXIT)
      exitTime         == IF Len(exitLogs) > 0
                          THEN exitLogs[Len(exitLogs)][2] ELSE Dash
      totalHours       == calculateDuration(entryTime, exitTime)
      taskStartLogs    == filterKeyword(userLogs, KW_DAILY_TASK)
      taskStartTime    == IF taskStartLogs # <<>> THEN taskStartLogs[1][2]
                          ELSE Dash
      taskEndLogs      == filterKeyword(userLogs, KW_DAILY_REPORT)
      taskEndTime      == IF Len(taskEndLogs) > 0
                          THEN taskEndLogs[Len(taskEndLogs)][2] ELSE Dash
      grossWorkingTime == calculateDuration(taskStartTime, taskEndTime)
      lunchDuration    == calculateLunchDuration(userLogs)
      breakDuration    == calculateBreakDuration(userLogs)
      breakCount       == countBreaks(userLogs)
      netWorkingHours  == netWorkingHoursOf(grossWorkingTime, lunchDuration,
                                            breakDuration)
  IN [userLogs         |-> userLogs,
      totalHours       |-> totalHours,
      grossWorkingTime |-> grossWorkingTime,
      lunchDuration    |-> lunchDuration,
      breakDuration    |-> breakDuration,
      netWorkingHours  |-> netWorkingHours,
      summaryData      |->
        [date            |-> date,
         employeeName    |-> employeeName,
         entryTime       |-> entryTime,
         exitTime        |-> exitTime,
         totalHours      |-> formatDuration(totalHours),
         taskStartTime   |-> taskStartTime,
         taskEndTime     |-> taskEndTime,
         lunchDuration   |-> formatDuration(lunchDuration),
         breakDuration   |-> formatDuration(breakDuration),
         breakCount      |-> breakCount,
         netWorkingHours |-> formatDuration(netWorkingHours)]]

\* parseSlackTimestamp(ts): moment.unix(parseFloat(ts)).tz(timezone) formatted
\* as YYYY-MM-DD and HH:mm:ss; the fraction of the timestamp does not reach
\* either string. Dates are formatted for January 1970, where the model's
\* timestamps lie.
TZ_OFFSET_SECONDS == 19800

\* format('HH:mm:ss') of a second of the day
formatTime(secs) ==
  padStart2(toString(secs \div 3600)) \o <<":">>
    \o padStart2(toString((secs % 3600) \div 60)) \o <<":">>
    \o padStart2(toString(secs % 60))

\* format('YYYY-MM-DD') of a day of January 1970, counted from 0
formatDate(day) ==
  <<"1", "9", "7", "0", "-", "0", "1", "-">> \o padStart2(toString(day + 1))

\* what moment's format gives for a moment that is not valid
INVALID_DATE == <<"I", "n", "v", "a", "l", "i", "d", " ", "d", "a", "t", "e">>

parseSlackTimestamp(ts) ==
  LET unixTimestamp == parseInt(Split(ts, ".")[1])
      local         == unixTimestamp + TZ_OFFSET_SECONDS
  IN IF unixTimestamp = NaN
     THEN [date |-> INVALID_DATE, time |-> INVALID_DATE]
     ELSE [date |-> formatDate(local \div 86400),
           time |-> formatTime(local % 86400)]

(***************************************************************************)
(* GoogleSheetsService: the dedup set and the two sheets                   *)
(* The sheet layout is the one AttendanceService's column indexes match:   *)
(* raw_logs rows of five columns, daily_summary rows of eleven columns     *)
(* keyed by date and employee name.                                        *)
(* A sheet is the sequence of its rows down to the last row holding data;  *)
(* row 1 is the header row, a cleared row in between is <<>>.              *)
(***************************************************************************)
PROCESSED_LIMIT == 10000
PROCESSED_KEEP  == 5000

RAW_HEADER ==
  <<<<"D", "a", "t", "e">>, <<"T", "i", "m", "e">>, "Employee Name",
    "Channel Name", <<"K", "e", "y", "w", "o", "r", "d">>>>

SUMMARY_HEADER ==
  <<<<"D", "a", "t", "e">>, "Employee Name", "Entry Time", "Exit Time",
    "Total Hours", "Task Start", "Task End", "Lunch Duration",
    "Break Duration", "Break Count", "Net Working Hours">>

\* eventKey built from the timestamp alone (mutation)
eventKey_withoutKeyword(slackTs, keyword) == slackTs \o <<"-">>

\* const eventKey = `${slackTs}-${keyword}`
eventKey(slackTs, keyword) == slackTs \o <<"-">> \o keyword

\* the value isEventProcessed returns
isEventProcessed(processed, slackTs, keyword) ==
  LET key == eventKey(slackTs, keyword)
  IN \E k \in 1..Len(processed) : processed[k] = key

\* isEventProcessed keeping the first 5000 keys of the array, arr.slice(0,
\* 5000) (mutation)
markProcessed_keepOldest(processed, slackTs, keyword) ==
  IF isEventProcessed(processed, slackTs, keyword) THEN processed
  ELSE LET arr == Append(processed, eventKey(slackTs, keyword))
       IN IF Len(arr) > PROCESSED_LIMIT
          THEN SubSeq(arr, 1, PROCESSED_KEEP)
          ELSE arr

\* isEventProcessed moving a key that is found to the end of the set, as a
\* delete and add on a hit would (mutation)
markProcessed_refreshOnHit(processed, slackTs, keyword) ==
  IF isEventProcessed(processed, slackTs, keyword)
  THEN Append(SelectSeq(processed, LAMBDA k : k # eventKey(slackTs, keyword)),
              eventKey(slackTs, keyword))
  ELSE LET arr == Append(processed, eventKey(slackTs, keyword))
       IN IF Len(arr) > PROCESSED_LIMIT
          THEN SubSeq(arr, Len(arr) - PROCESSED_KEEP + 1, Len(arr))
          ELSE arr

\* isEventProcessed without this.processedEvents.add(eventKey) (mutation)
markProcessed_withoutAdd(processed, slackTs, keyword) == processed

\* this.processedEvents after isEventProcessed; the Set keeps insertion
\* order, arr.slice(-5000) keeps its last 5000 keys
markProcessed(processed, slackTs, keyword) ==
  IF isEventProcessed(processed, slackTs, keyword) THEN processed
  ELSE LET arr == Append(processed, eventKey(slackTs, keyword))
       IN IF Len(arr) > PROCESSED_LIMIT
          THEN SubSeq(arr, Len(arr) - PROCESSED_KEEP + 1, Len(arr))
          ELSE arr

\* the row appendToRawLogs writes
rawRow(data) ==
  <<data.date, data.time, data.employeeName, data.channelName, data.keyword>>

\* getDailyLogs(date) on a successful read: rows.slice(1).filter(by date)
getDailyLogs(rows, date) ==
  SelectSeq(Tail(rows), LAMBDA row : row # <<>> /\ row[1] = date)

\* the for loop of updateDailySummary: the sheet row (1-indexed) of the first
\* row after the header with this date and employee, -1 when there is none
RECURSIVE findRowIndex(_, _, _, _)
findRowIndex(rows, date, employeeName, i) ==
  IF i > Len(rows) THEN 0 - 1
  ELSE IF rows[i] # <<>> /\ rows[i][1] = date /\ rows[i][2] = employeeName
       THEN i
  ELSE findRowIndex(rows, date, employeeName, i + 1)

\* rowData of updateDailySummary; every field of summaryData is a non-empty
\* string except breakCount, for which breakCount || 0 is breakCount
rowData(summaryData) ==
  <<summaryData.date, summaryData.employeeName, summaryData.entryTime,
    summaryData.exitTime, summaryData.totalHours, summaryData.taskStartTime,
    summaryData.taskEndTime, summaryData.lunchDuration,
    summaryData.breakDuration, summaryData.breakCount,
    summaryData.netWorkingHours>>

\* a sheet without its trailing empty rows
RECURSIVE trimSheet(_)
trimSheet(sheet) ==
  IF sheet # <<>> /\ sheet[Len(sheet)] = <<>>
  THEN trimSheet(SubSeq(sheet, 1, Len(sheet) - 1))
  ELSE sheet

\* spreadsheets.values.clear on one row
sheetClear(sheet, rowIndex) ==
  trimSheet([i \in 1..Len(sheet) |-> IF i = rowIndex THEN <<>> ELSE sheet[i]])

\* spreadsheets.values.update on one row
sheetUpdate(sheet, rowIndex, row) ==
  LET n == IF rowIndex > Len(sheet) THEN rowIndex ELSE Len(sheet)
  IN [i \in 1..n |-> IF i = rowIndex THEN row
                     ELSE IF i <= Len(sheet) THEN sheet[i] ELSE <<>>]

\* values.append writing over the last row of the sheet (mutation)
sheetAppend_replacingLast(sheet, row) ==
  IF Len(sheet) > 1 THEN [sheet EXCEPT ![Len(sheet)] = row]
  ELSE Append(sheet, row)

\* spreadsheets.values.append with INSERT_ROWS: after the last row with data
sheetAppend(sheet, row) == Append(sheet, row)

(***************************************************************************)
(* Inbound messages                                                        *)
(***************************************************************************)
TS_0900 == <<"1", "2", "6", "0", "0", ".", "0", "0", "0", "1", "0", "0">>
TS_1000 == <<"1", "6", "2", "0", "0", ".", "0", "0", "0", "3", "0", "0">>
TS_1800 == <<"4", "5", "0", "0", "0", ".", "0", "0", "0", "2", "0", "0">>

\* what handleSlackEvent has in hand when it calls logEvent: the message's
\* ts, the names users.info and conversations.info gave, and the keyword
Messages ==
  { [ts |-> TS_0900, employeeName |-> "Asha", channelName |-> "team-309",
     keyword |-> KW_ENTRY],
    [ts |-> TS_1800, employeeName |-> "Asha", channelName |-> "team-309",
     keyword |-> KW_EXIT],
    [ts |-> TS_0900, employeeName |-> "Asha", channelName |-> "team-309",
     keyword |-> KW_EXIT],
    [ts |-> TS_1000, employeeName |-> "Ravi", channelName |-> "team-338",
     keyword |-> KW_ENTRY] }

\* the argument of attendanceService.logEvent
eventDataOf(msg) ==
  [date         |-> parseSlackTimestamp(msg.ts).date,
   time         |-> parseSlackTimestamp(msg.ts).time,
   employeeName |-> msg.employeeName,
   channelName  |-> msg.channelName,
   keyword      |-> msg.keyword,
   slackTs      |-> msg.ts]

(***************************************************************************)
(* The logEvent pipelines. Each delivery runs as its own async call; it    *)
(* gives up control only at an await, so the code between two awaits is    *)
(* one step. pc names the collaborator call a pipeline is waiting for.     *)
(***************************************************************************)
Procs == 1..MaxDeliveries

\* a Slack event as req.body.event carries it; a missing field is "" or <<>>
NoEvent == [type |-> "", bot_id |-> "", subtype |-> "", text |-> <<>>,
            user |-> "", channel |-> "", ts |-> <<>>]

\* req.body of a request that has none
NoBody == [type |-> "", challenge |-> "", event |-> NoEvent]

\* a header that is not sent
NoSignature == [bytes |-> 0, secret |-> "", timestamp |-> <<>>, rawBody |-> NoBody]

NoRequest == [timestamp |-> <<>>, signature |-> NoSignature, rawBody |-> NoBody]

\* nothing sent on res yet
NoResponse == [status |-> 0, body |-> ""]

NoData == [date |-> <<>>, time |-> <<>>, employeeName |-> "", channelName |-> "",
           keyword |-> <<>>, slackTs |-> <<>>]

IdleProc ==
  [pc        |-> "idle",
   data      |-> NoData,
   userLogs  |-> <<>>,
   row       |-> <<>>,
   rowIndex  |-> 0,
   result    |-> "none",
   appended  |-> FALSE,
   recomputed |-> FALSE,
   req       |-> NoRequest,
   response  |-> NoResponse]

\* no helper called yet
NoUtil == [fn |-> "none", text |-> <<>>, minutes |-> 0, result |-> <<>>]

\* no recomputation made yet
NoCalc == [done |-> FALSE, employeeName |-> "", locals |-> summaryLocals(<<>>, <<>>, "")]

Init ==
  /\ processedEvents = <<>>
  /\ rawLogs = <<RAW_HEADER>>
  /\ dailySummary = <<SUMMARY_HEADER>>
  /\ proc = [i \in Procs |-> IdleProc]
  /\ calls = <<>>
  /\ calc = NoCalc
  /\ util = NoUtil

\* a pipeline ends: logEvent returns or throws
finish(i, result) == [proc EXCEPT ![i].pc = "done", ![i].result = result]

\* handleSlackEvent calls logEvent(eventData): the dedup check, then either
\* the duplicate return or the call of appendToRawLogs
Deliver(i, msg) ==
  LET data == eventDataOf(msg)
  IN /\ proc[i].pc = "idle"
     /\ \A j \in Procs : j < i => proc[j].pc # "idle"
     /\ processedEvents' = markProcessed(processedEvents, data.slackTs, data.keyword)
     /\ proc' = IF isEventProcessed(processedEvents, data.slackTs, data.keyword)
                THEN [proc EXCEPT ![i].pc = "done", ![i].data = data,
                                  ![i].result = "duplicate"]
                ELSE [proc EXCEPT ![i].pc = "appendToRawLogs", ![i].data = data]
     /\ calls' = Append(calls,
                  [slackTs |-> data.slackTs, keyword |-> data.keyword,
                   result  |-> isEventProcessed(processedEvents, data.slackTs,
                                                data.keyword)])
     /\ UNCHANGED <<rawLogs, dailySummary, calc, util>>

\* appendToRawLogs resolves; logEvent goes on to updateDailySummary, which
\* calls getDailyLogs
AppendOk(i) ==
  /\ proc[i].pc = "appendToRawLogs"
  /\ rawLogs' = sheetAppend(rawLogs, rawRow(proc[i].data))
  /\ proc' = [proc EXCEPT ![i].pc = "getDailyLogs", ![i].appended = TRUE,
                          ![i].recomputed = TRUE]
  /\ UNCHANGED <<processedEvents, dailySummary, calls, calc, util>>

\* logEvent going on to the summary after a rejected append (mutation)
AppendFail_continuing(i) ==
  /\ proc[i].pc = "appendToRawLogs"
  /\ proc' = [proc EXCEPT ![i].pc = "getDailyLogs"]
  /\ UNCHANGED <<processedEvents, rawLogs, dailySummary, calls, calc, util>>

\* appendToRawLogs rejects: logEvent throws
AppendFail(i) ==
  /\ proc[i].pc = "appendToRawLogs"
  /\ proc' = finish(i, "error")
  /\ UNCHANGED <<processedEvents, rawLogs, dailySummary, calls, calc, util>>

\* the rest of AttendanceService.updateDailySummary once getDailyLogs has
\* returned dailyLogs: null when the employee has no row, else the summary
\* is computed and sheetsService.updateDailySummary starts its read
afterDailyLogs(i, dailyLogs) ==
  LET d      == proc[i].data
      locals == summaryLocals(dailyLogs, d.date, d.employeeName)
  IN IF locals.userLogs = <<>>
     THEN finish(i, "logged-null")
     ELSE [proc EXCEPT ![i].pc = "summaryGet",
                       ![i].userLogs = locals.userLogs,
                       ![i].row = rowData(locals.summaryData)]

\* the read of raw_logs resolves
GetDailyLogsOk(i) ==
  /\ proc[i].pc = "getDailyLogs"
  /\ proc' = afterDailyLogs(i, getDailyLogs(rawLogs, proc[i].data.date))
  /\ UNCHANGED <<processedEvents, rawLogs, dailySummary, calls, calc, util>>

\* the read of raw_logs rejects: getDailyLogs catches and returns []
GetDailyLogsFail(i) ==
  /\ proc[i].pc = "getDailyLogs"
  /\ proc' = afterDailyLogs(i, <<>>)
  /\ UNCHANGED <<processedEvents, rawLogs, dailySummary, calls, calc, util>>

\* the read of daily_summary resolves: the row is looked up and either the
\* clear of the existing row or the append of a new row is called
SummaryGetOk(i) ==
  /\ proc[i].pc = "summaryGet"
  /\ LET rowIndex == findRowIndex(dailySummary, proc[i].data.date,
                                  proc[i].data.employeeName, 2)
     IN proc' = [proc EXCEPT ![i].rowIndex = rowIndex,
                             ![i].pc = IF rowIndex > 0 THEN "summaryClear"
                                       ELSE "summaryAppend"]
  /\ UNCHANGED <<processedEvents, rawLogs, dailySummary, calls, calc, util>>

\* the read of daily_summary rejects: rethrown up to logEvent's caller
SummaryGetFail(i) ==
  /\ proc[i].pc = "summaryGet"
  /\ proc' = finish(i, "error")
  /\ UNCHANGED <<processedEvents, rawLogs, dailySummary, calls, calc, util>>

\* values.clear of the existing row resolves; values.update is called
SummaryClearOk(i) ==
  /\ proc[i].pc = "summaryClear"
  /\ dailySummary' = sheetClear(dailySummary, proc[i].rowIndex)
  /\ proc' = [proc EXCEPT ![i].pc = "summaryUpdate"]
  /\ UNCHANGED <<processedEvents, rawLogs, calls, calc, util>>

SummaryClearFail(i) ==
  /\ proc[i].pc = "summaryClear"
  /\ proc' = finish(i, "error")
  /\ UNCHANGED <<processedEvents, rawLogs, dailySummary, calls, calc, util>>

\* values.update of the existing row resolves; logEvent returns the summary
SummaryUpdateOk(i) ==
  /\ proc[i].pc = "summaryUpdate"
  /\ dailySummary' = sheetUpdate(dailySummary, proc[i].rowIndex, proc[i].row)
  /\ proc' = finish(i, "logged")
  /\ UNCHANGED <<processedEvents, rawLogs, calls, calc, util>>

SummaryUpdateFail(i) ==
  /\ proc[i].pc = "summaryUpdate"
  /\ proc' = finish(i, "error")
  /\ UNCHANGED <<processedEvents, rawLogs, dailySummary, calls, calc, util>>

\* values.append of a new row resolves; logEvent returns the summary
SummaryAppendOk(i) ==
  /\ proc[i].pc = "summaryAppend"
  /\ dailySummary' = sheetAppend(dailySummary, proc[i].row)
  /\ proc' = finish(i, "logged")
  /\ UNCHANGED <<processedEvents, rawLogs, calls, calc, util>>

SummaryAppendFail(i) ==
  /\ proc[i].pc = "summaryAppend"
  /\ proc' = finish(i, "error")
  /\ UNCHANGED <<processedEvents, rawLogs, dailySummary, calls, calc, util>>

Next ==
  \/ \E i \in Procs, msg \in Messages : Deliver(i, msg)
  \/ \E i \in Procs : AppendOk(i)
  \/ \E i \in Procs : AppendFail(i)
  \/ \E i \in Procs : GetDailyLogsOk(i)
  \/ \E i \in Procs : GetDailyLogsFail(i)
  \/ \E i \in Procs : SummaryGetOk(i)
  \/ \E i \in Procs : SummaryGetFail(i)
  \/ \E i \in Procs : SummaryClearOk(i)
  \/ \E i \in Procs : SummaryClearFail(i)
  \/ \E i \in Procs : SummaryUpdateOk(i)
  \/ \E i \in Procs : SummaryUpdateFail(i)
  \/ \E i \in Procs : SummaryAppendOk(i)
  \/ \E i \in Procs : SummaryAppendFail(i)

Spec == Init /\ [][Next]_vars

(***************************************************************************)
(* The pipelines of a day that has begun: Asha's #entry of 09:00 was       *)
(* delivered and its pipeline has returned, so its key is tracked, its row *)
(* is stored and daily_summary holds Asha's row.                           *)
(***************************************************************************)
StoredMessage ==
  [ts |-> TS_0900, employeeName |-> "Asha", channelName |-> "team-309",
   keyword |-> KW_ENTRY]

InitStored ==
  LET data == eventDataOf(StoredMessage)
      logs == <<rawRow(data)>>
  IN /\ processedEvents = markProcessed(<<>>, data.slackTs, data.keyword)
     /\ rawLogs = sheetAppend(<<RAW_HEADER>>, rawRow(data))
     /\ dailySummary =
          sheetAppend(<<SUMMARY_HEADER>>,
                      rowData(summaryLocals(logs, data.date,
                                            data.employeeName).summaryData))
     /\ proc = [i \in Procs |-> IdleProc]
     /\ calls = <<[slackTs |-> data.slackTs, keyword |-> data.keyword,
                   result |-> FALSE]>>
     /\ calc = NoCalc
     /\ util = NoUtil

SpecStored == InitStored /\ [][Next]_vars

(***************************************************************************)
(* POST /slack/events: verifySlackRequest, the route handler and           *)
(* handleSlackEvent in front of the logEvent pipelines. A request runs     *)
(* from its arrival to the first await in one step.                        *)
(***************************************************************************)
SLACK_SIGNING_SECRET == "signing-secret"

\* Math.floor(Date.now() / 1000) when the requests arrive
currentTime == 1000

\* the request age verifySlackRequest tolerates, in seconds
REPLAY_WINDOW == 300

\* the length of 'v0=' followed by the hex digest of a SHA-256 HMAC
SIGNATURE_BYTES == 67

\* 'v0=' + createHmac('sha256', secret).update(`v0:${timestamp}:${rawBody}`)
\* .digest('hex'): equal signatures have equal secret, timestamp and body
sign(secret, timestamp, rawBody) ==
  [bytes |-> SIGNATURE_BYTES, secret |-> secret, timestamp |-> timestamp,
   rawBody |-> rawBody]

\* crypto.timingSafeEqual(Buffer.from(a), Buffer.from(b)): throws a
\* RangeError when the byte lengths differ
timingSafeEqual(a, b) ==
  IF a.bytes # b.bytes THEN "RangeError"
  ELSE IF a = b THEN "true" ELSE "false"

\* Math.abs(currentTime - parseInt(timestamp))
requestAge(timestamp) ==
  LET t == parseInt(timestamp)
  IN IF t = NaN THEN NaN
     ELSE IF t > currentTime THEN t - currentTime ELSE currentTime - t

\* verifySlackRequest: the response it sends, or next() with nothing sent.
\* The RangeError of timingSafeEqual is thrown out of the middleware and
\* Express answers 500.
verifySlackRequest(req) ==
  IF req.signature = NoSignature \/ req.timestamp = <<>>
  THEN [next |-> FALSE, response |-> [status |-> 401, body |-> "Missing signature headers"]]
  ELSE IF greater(requestAge(req.timestamp), REPLAY_WINDOW)
  THEN [next |-> FALSE, response |-> [status |-> 401, body |-> "Request too old"]]
  ELSE LET equal == timingSafeEqual(sign(SLACK_SIGNING_SECRET, req.timestamp, req.rawBody),
                                    req.signature)
       IN IF equal = "RangeError"
          THEN [next |-> FALSE, response |-> [status |-> 500, body |-> "Internal Server Error"]]
          ELSE IF equal = "false"
          THEN [next |-> FALSE, response |-> [status |-> 401, body |-> "Invalid signature"]]
          ELSE [next |-> TRUE, response |-> NoResponse]

\* the route handler sending its answer only when processing is over
\* (mutation)
respond_deferred(body) ==
  IF body.type = "url_verification"
  THEN [status |-> 200, body |-> body.challenge]
  ELSE NoResponse

\* what the route handler sends before it processes anything:
\* res.json({challenge}) or res.status(200).send()
respond(body) ==
  IF body.type = "url_verification"
  THEN [status |-> 200, body |-> body.challenge]
  ELSE [status |-> 200, body |-> ""]

\* the filters of handleSlackEvent letting bot messages through (mutation)
handledKeyword_withBots(event) ==
  IF event.type # "message" THEN null
  ELSE IF event.subtype # "" THEN null
  ELSE IF event.text = <<>> \/ event.user = "" THEN null
  ELSE extractKeyword(event.text)

\* the filters of handleSlackEvent: the keyword of an event that is
\* processed, null for an event that is dropped
handledKeyword(event) ==
  IF event.type # "message" THEN null
  ELSE IF event.bot_id # "" \/ event.subtype # "" THEN null
  ELSE IF event.text = <<>> \/ event.user = "" THEN null
  ELSE extractKeyword(event.text)

\* slackClient.users.info: the user objects of the workspace
Users ==
  [u \in {"U1", "U2"} |->
     IF u = "U1" THEN [real_name |-> "Asha", name |-> "asha"]
     ELSE [real_name |-> "", name |-> "ravi"]]

\* slackClient.conversations.info: the channel names of the workspace
Channels ==
  [c \in {"C309", "C338"} |-> IF c = "C309" THEN "team-309" ELSE "team-338"]

\* the request bodies Slack and others send
UrlVerification ==
  [type |-> "url_verification", challenge |-> "challenge-1", event |-> NoEvent]

EntryMessage ==
  [type |-> "message", bot_id |-> "", subtype |-> "", text |-> KW_ENTRY,
   user |-> "U1", channel |-> "C309", ts |-> TS_0900]

ExitMessage ==
  [EntryMessage EXCEPT !.text = <<"o", "u", "t", " ", "#", "E", "x", "i", "t">>,
                       !.ts = TS_1800]

Events ==
  { EntryMessage,
    ExitMessage,
    [EntryMessage EXCEPT !.bot_id = "B1"],
    [EntryMessage EXCEPT !.subtype = "message_changed"],
    [EntryMessage EXCEPT !.type = "reaction_added"],
    [EntryMessage EXCEPT !.text = <<"h", "i">>],
    [EntryMessage EXCEPT !.text = <<>>],
    [EntryMessage EXCEPT !.user = ""] }

callback(event) == [type |-> "event_callback", challenge |-> "", event |-> event]

Bodies ==
  {UrlVerification, [type |-> "app_rate_limited", challenge |-> "", event |-> NoEvent]}
    \cup {callback(event) : event \in Events}

\* a request Slack signed at second t
signed(t, body) ==
  [timestamp |-> toString(t),
   signature |-> sign(SLACK_SIGNING_SECRET, toString(t), body),
   rawBody   |-> body]

\* the requests that arrive: each body signed by Slack now, and the entry
\* message with a header missing, outside the replay window, at its edge,
\* signed with another secret, signed for another body, with a signature of
\* another length, and with a timestamp that is not a number
Requests ==
  LET entry == signed(currentTime, callback(EntryMessage))
      word  == <<"n", "o", "w">>
  IN {signed(currentTime, body) : body \in Bodies}
       \cup { [entry EXCEPT !.signature = NoSignature],
              [entry EXCEPT !.timestamp = <<>>],
              signed(currentTime - REPLAY_WINDOW - 1, callback(EntryMessage)),
              signed(currentTime + REPLAY_WINDOW + 1, callback(EntryMessage)),
              signed(currentTime - REPLAY_WINDOW, callback(ExitMessage)),
              [entry EXCEPT !.signature = sign("other-secret", entry.timestamp, entry.rawBody)],
              [entry EXCEPT !.signature = sign(SLACK_SIGNING_SECRET, entry.timestamp,
                                               callback(ExitMessage))],
              [entry EXCEPT !.signature = [entry.signature EXCEPT !.bytes = 8]],
              [timestamp |-> word,
               signature |-> sign(SLACK_SIGNING_SECRET, word, UrlVerification),
               rawBody   |-> UrlVerification] }

\* a request arrives: verifySlackRequest, then the route handler up to its
\* first await, the call of slackClient.users.info in handleSlackEvent
Receive(i, req) ==
  LET verified == verifySlackRequest(req)
      body     == req.rawBody
      keyword  == handledKeyword(body.event)
  IN /\ proc[i].pc = "idle"
     /\ \A j \in Procs : j < i => proc[j].pc # "idle"
     /\ proc' =
          IF ~verified.next
          THEN [proc EXCEPT ![i].pc = "done", ![i].req = req,
                            ![i].response = verified.response,
                            ![i].result = "rejected"]
          ELSE IF body.type = "url_verification"
          THEN [proc EXCEPT ![i].pc = "done", ![i].req = req,
                            ![i].response = respond(body),
                            ![i].result = "challenge"]
          ELSE IF body.type = "event_callback" /\ body.event # NoEvent
                  /\ keyword # null
          THEN [proc EXCEPT ![i].pc = "usersInfo", ![i].req = req,
                            ![i].response = respond(body),
                            ![i].data = [NoData EXCEPT !.keyword = keyword]]
          ELSE [proc EXCEPT ![i].pc = "done", ![i].req = req,
                            ![i].response = respond(body),
                            ![i].result = "ignored"]
     /\ UNCHANGED <<processedEvents, rawLogs, dailySummary, calls, calc, util>>

\* users.info resolves: employeeName = real_name || name, and
\* conversations.info is called
UsersInfoOk(i) ==
  /\ proc[i].pc = "usersInfo"
  /\ LET user == Users[proc[i].req.rawBody.event.user]
     IN proc' = [proc EXCEPT ![i].pc = "conversationsInfo",
                             ![i].data.employeeName =
                                IF user.real_name # "" THEN user.real_name
                                ELSE user.name]
  /\ UNCHANGED <<processedEvents, rawLogs, dailySummary, calls, calc, util>>

\* users.info rejects: caught and logged in handleSlackEvent
UsersInfoFail(i) ==
  /\ proc[i].pc = "usersInfo"
  /\ proc' = finish(i, "caught")
  /\ UNCHANGED <<processedEvents, rawLogs, dailySummary, calls, calc, util>>

\* conversations.info resolves: the timestamp is parsed and logEvent is
\* called, which checks the dedup set and calls appendToRawLogs
ConversationsInfoOk(i) ==
  LET event == proc[i].req.rawBody.event
      data  == eventDataOf([ts           |-> event.ts,
                            employeeName |-> proc[i].data.employeeName,
                            channelName  |-> Channels[event.channel],
                            keyword      |-> proc[i].data.keyword])
  IN /\ proc[i].pc = "conversationsInfo"
     /\ processedEvents' = markProcessed(processedEvents, data.slackTs, data.keyword)
     /\ proc' = IF isEventProcessed(processedEvents, data.slackTs, data.keyword)
                THEN [proc EXCEPT ![i].pc = "done", ![i].data = data,
                                  ![i].result = "duplicate"]
                ELSE [proc EXCEPT ![i].pc = "appendToRawLogs", ![i].data = data]
     /\ calls' = Append(calls,
                  [slackTs |-> data.slackTs, keyword |-> data.keyword,
                   result  |-> isEventProcessed(processedEvents, data.slackTs,
                                                data.keyword)])
     /\ UNCHANGED <<rawLogs, dailySummary, calc, util>>

\* conversations.info rejects: caught and logged in handleSlackEvent
ConversationsInfoFail(i) ==
  /\ proc[i].pc = "conversationsInfo"
  /\ proc' = finish(i, "caught")
  /\ UNCHANGED <<processedEvents, rawLogs, dailySummary, calls, calc, util>>

NextHttp ==
  \/ \E i \in Procs, req \in Requests : Receive(i, req)
  \/ \E i \in Procs : UsersInfoOk(i)
  \/ \E i \in Procs : UsersInfoFail(i)
  \/ \E i \in Procs : ConversationsInfoOk(i)
  \/ \E i \in Procs : ConversationsInfoFail(i)
  \/ \E i \in Procs : AppendOk(i)
  \/ \E i \in Procs : AppendFail(i)
  \/ \E i \in Procs : GetDailyLogsOk(i)
  \/ \E i \in Procs : GetDailyLogsFail(i)
  \/ \E i \in Procs : SummaryGetOk(i)
  \/ \E i \in Procs : SummaryGetFail(i)
  \/ \E i \in Procs : SummaryClearOk(i)
  \/ \E i \in Procs : SummaryClearFail(i)
  \/ \E i \in Procs : SummaryUpdateOk(i)
  \/ \E i \in Procs : SummaryUpdateFail(i)
  \/ \E i \in Procs : SummaryAppendOk(i)
  \/ \E i \in Procs : SummaryAppendFail(i)

SpecHttp == Init /\ [][NextHttp]_vars

(***************************************************************************)
(* The deduplicator alone: a sequence of isEventProcessed calls            *)
(***************************************************************************)
DedupTimestamps == {TS_0900, TS_1000, TS_1800}
DedupKeywords   == {KW_ENTRY, KW_EXIT, KW_DAILY_TASK}

\* one call of sheetsService.isEventProcessed(slackTs, keyword)
IsEventProcessedCall(slackTs, keyword) ==
  /\ Len(calls) < MaxCalls
  /\ processedEvents' = markProcessed(processedEvents, slackTs, keyword)
  /\ calls' = Append(calls,
               [slackTs |-> slackTs, keyword |-> keyword,
                result  |-> isEventProcessed(processedEvents, slackTs, keyword)])
  /\ UNCHANGED <<rawLogs, dailySummary, proc, calc, util>>

NextDedup ==
  \E slackTs \in DedupTimestamps, keyword \in DedupKeywords :
    IsEventProcessedCall(slackTs, keyword)

SpecDedup == Init /\ [][NextDedup]_vars

(***************************************************************************)
(* The deduplicator of a process that has been running for long: the keys  *)
(* of PROCESSED_LIMIT - 1 or PROCESSED_LIMIT messages are tracked, in the  *)
(* order of the messages, and none was evicted yet. calls holds the calls  *)
(* made from then on.                                                      *)
(***************************************************************************)
\* the ts of the n-th message of the run
tsOf(n) == toString(n) \o <<".", "0", "0", "0", "0", "0", "0">>

\* processedEvents after the #entry messages 1..n were each checked once
TrackedRun(n) == [k \in 1..n |-> eventKey(tsOf(k), KW_ENTRY)]

EvictStarts == {PROCESSED_LIMIT - 1, PROCESSED_LIMIT}

\* the last message a trim of PROCESSED_LIMIT + 1 keys drops, the first one
\* it keeps, and two messages that were not seen before
EvictTimestamps ==
  {tsOf(PROCESSED_LIMIT - PROCESSED_KEEP + 1),
   tsOf(PROCESSED_LIMIT - PROCESSED_KEEP + 2), TS_0900, TS_1000}

InitEvict ==
  /\ \E n \in EvictStarts : processedEvents = TrackedRun(n)
  /\ rawLogs = <<RAW_HEADER>>
  /\ dailySummary = <<SUMMARY_HEADER>>
  /\ proc = [i \in Procs |-> IdleProc]
  /\ calls = <<>>
  /\ calc = NoCalc
  /\ util = NoUtil

NextEvict == \E slackTs \in EvictTimestamps : IsEventProcessedCall(slackTs, KW_ENTRY)

SpecEvict == InitEvict /\ [][NextEvict]_vars

(***************************************************************************)
(* The calculator alone: raw_logs holds rows of one day in any append      *)
(* order, and AttendanceService.updateDailySummary runs with no other      *)
(* pipeline in flight and every collaborator call resolving. Rows of the   *)
(* same minute differ in their seconds.                                    *)
(***************************************************************************)
CalcDate == formatDate(0)

hm(h, m) == formatTime(h * 3600 + m * 60)

logRow(employeeName, time, keyword) ==
  <<CalcDate, time, employeeName, "team-309", keyword>>

BreakRows ==
  { logRow("Asha", hm(9, 0), KW_BREAK_START),
    logRow("Asha", hm(9, 30), KW_BREAK_START),
    logRow("Asha", hm(9, 20), KW_BREAK_END),
    logRow("Asha", hm(9, 45), KW_BREAK_END),
    logRow("Asha", hm(16, 0), KW_BREAK_START),
    logRow("Asha", formatTime(9 * 3600 + 30), KW_BREAK_START) }

NetRows ==
  { logRow("Asha", hm(9, 15), KW_DAILY_TASK),
    logRow("Asha", hm(18, 0), KW_DAILY_REPORT),
    logRow("Asha", hm(9, 20), KW_DAILY_REPORT),
    logRow("Asha", hm(13, 0), KW_BREAK_START),
    logRow("Asha", hm(13, 15), KW_BREAK_END),
    logRow("Asha", hm(12, 0), KW_LUNCH_START),
    logRow("Asha", hm(12, 30), KW_LUNCH_END) }

PresenceRows ==
  { logRow("Asha", hm(9, 0), KW_ENTRY),
    logRow("Asha", formatTime(9 * 3600 + 50), KW_ENTRY),
    logRow("Asha", hm(18, 0), KW_EXIT),
    logRow("Asha", hm(8, 0), KW_EXIT),
    logRow("Asha", formatTime(9 * 3600 + 10), KW_EXIT),
    logRow("Ravi", hm(9, 30), KW_ENTRY) }

LunchRows ==
  { logRow("Asha", hm(12, 0), KW_LUNCH_START),
    logRow("Asha", hm(12, 10), KW_LUNCH_START),
    logRow("Asha", hm(12, 30), KW_LUNCH_END),
    logRow("Asha", hm(11, 0), KW_LUNCH_END),
    logRow("Asha", hm(13, 0), KW_LUNCH_END) }

RowFamilies == {BreakRows, NetRows, PresenceRows, LunchRows}

\* the sequences over S of length at most n
BoundedSeq(S, n) == UNION {[1..k -> S] : k \in 0..n}

\* those of them in which no row occurs twice
DistinctRowSeq(S, n) ==
  {s \in BoundedSeq(S, n) : \A i \in 1..Len(s), j \in 1..Len(s) : i # j => s[i] # s[j]}

InitCalc ==
  /\ processedEvents = <<>>
  /\ \E family \in RowFamilies :
       \E logs \in DistinctRowSeq(family, MaxLogs) : rawLogs = <<RAW_HEADER>> \o logs
  /\ dailySummary = <<SUMMARY_HEADER>>
  /\ proc = [i \in Procs |-> IdleProc]
  /\ calls = <<>>
  /\ calc = NoCalc
  /\ util = NoUtil

\* sheetsService.updateDailySummary(summaryData) with its reads and writes
\* resolving one after the other
upsertSummary(sheet, summaryData) ==
  LET rowIndex == findRowIndex(sheet, summaryData.date,
                               summaryData.employeeName, 2)
  IN IF rowIndex > 0
     THEN sheetUpdate(sheetClear(sheet, rowIndex), rowIndex, rowData(summaryData))
     ELSE sheetAppend(sheet, rowData(summaryData))

\* AttendanceService.updateDailySummary(date, employeeName), called as
\* logEvent calls it: after a row of that employee and date was appended
Recompute(date, employeeName) ==
  LET dailyLogs == getDailyLogs(rawLogs, date)
      locals    == summaryLocals(dailyLogs, date, employeeName)
  IN /\ locals.userLogs # <<>>
     /\ calc' = [done |-> TRUE, employeeName |-> employeeName, locals |-> locals]
     /\ dailySummary' = upsertSummary(dailySummary, locals.summaryData)
     /\ UNCHANGED <<processedEvents, rawLogs, proc, calls, util>>

NextCalc == \E employeeName \in {"Asha", "Ravi"} : Recompute(CalcDate, employeeName)

SpecCalc == InitCalc /\ [][NextCalc]_vars

(***************************************************************************)
(* The calculator on rows whose time column does not hold a time: the      *)
(* string written for a timestamp that is not a number, and a cell edited  *)
(* by hand. Each keyword has at most one row per employee, so that no      *)
(* field of the summary depends on where the sort leaves a row whose       *)
(* minutes are NaN.                                                        *)
(***************************************************************************)
MalformedRows ==
  { logRow("Asha", INVALID_DATE, KW_ENTRY),
    logRow("Asha", hm(18, 0), KW_EXIT),
    logRow("Asha", hm(9, 15), KW_DAILY_TASK),
    logRow("Asha", <<"1", "8", ":", "x", "x", ":", "0", "0">>, KW_DAILY_REPORT),
    logRow("Asha", hm(12, 0), KW_LUNCH_START),
    logRow("Asha", INVALID_DATE, KW_LUNCH_END),
    logRow("Ravi", hm(9, 30), KW_ENTRY) }

InitMalformed ==
  /\ processedEvents = <<>>
  /\ \E logs \in DistinctRowSeq(MalformedRows, MaxLogs) :
       rawLogs = <<RAW_HEADER>> \o logs
  /\ dailySummary = <<SUMMARY_HEADER>>
  /\ proc = [i \in Procs |-> IdleProc]
  /\ calls = <<>>
  /\ calc = NoCalc
  /\ util = NoUtil

SpecMalformed == InitMalformed /\ [][NextCalc]_vars

(***************************************************************************)
(* extractKeyword alone: handleSlackEvent calls it with the text of a      *)
(* message. The texts are made of up to MaxFragments fragments.            *)
(***************************************************************************)
Fragments ==
  { KW_ENTRY, <<"#", "E", "X", "I", "T">>,
    <<"#", "D", "a", "i", "l", "y", "-", "T", "a", "s", "k">>, KW_DAILY_REPORT,
    KW_LUNCH_START, <<"#", "L", "u", "n", "c", "h", "E", "n", "d">>,
    KW_BREAK_START, KW_BREAK_END,
    <<" ">>, <<"h", "i">>, <<"#">>, <<"#", "e", "n", "t">>, <<"r", "y">> }

RECURSIVE concat(_)
concat(fs) == IF fs = <<>> THEN <<>> ELSE Head(fs) \o concat(Tail(fs))

Texts == {concat(fs) : fs \in BoundedSeq(Fragments, MaxFragments)}

\* a message with this text has arrived
InitExtract ==
  /\ processedEvents = <<>>
  /\ rawLogs = <<RAW_HEADER>>
  /\ dailySummary = <<SUMMARY_HEADER>>
  /\ proc = [i \in Procs |-> IdleProc]
  /\ calls = <<>>
  /\ calc = NoCalc
  /\ \E text \in Texts : util = [NoUtil EXCEPT !.text = text]

\* const keyword = extractKeyword(text)
ExtractKeyword ==
  /\ util' = [fn |-> "extractKeyword", text |-> util.text, minutes |-> 0,
              result |-> extractKeyword(util.text)]
  /\ UNCHANGED <<processedEvents, rawLogs, dailySummary, proc, calls, calc>>

NextExtract == ExtractKeyword

SpecExtract == InitExtract /\ [][NextExtract]_vars

(***************************************************************************)
(* formatDuration alone, on the minute counts 0..MaxMinutes                *)
(***************************************************************************)
\* a duration of this many minutes was computed
InitFormat ==
  /\ processedEvents = <<>>
  /\ rawLogs = <<RAW_HEADER>>
  /\ dailySummary = <<SUMMARY_HEADER>>
  /\ proc = [i \in Procs |-> IdleProc]
  /\ calls = <<>>
  /\ calc = NoCalc
  /\ \E minutes \in 0..MaxMinutes : util = [NoUtil EXCEPT !.minutes = minutes]

\* this.formatDuration(minutes)
FormatDuration ==
  /\ util' = [fn |-> "formatDuration", text |-> <<>>, minutes |-> util.minutes,
              result |-> formatDuration(util.minutes)]
  /\ UNCHANGED <<processedEvents, rawLogs, dailySummary, proc, calls, calc>>

NextFormat == FormatDuration

SpecFormat == InitFormat /\ [][NextFormat]_vars

(***************************************************************************)
(* Properties of the pipelines and of the deduplicator                     *)
(***************************************************************************)
Delivered(i) == proc[i].pc # "idle"

Done(i) == proc[i].pc = "done"

\* two deliveries carry the same (eventId, keyword)
SamePair(i, j) ==
  /\ proc[i].data.slackTs = proc[j].data.slackTs
  /\ proc[i].data.keyword = proc[j].data.keyword

\* two deliveries affect the same (date, employee)
SameDay(i, j) ==
  /\ proc[i].data.date = proc[j].data.date
  /\ proc[i].data.employeeName = proc[j].data.employeeName

\* the deliveries of the (eventId, keyword) of delivery i
DeliveriesOf(i) == {k \in Procs : Delivered(k) /\ SamePair(k, i)}

\* the raw_logs rows holding the event of delivery i
RawRowsOf(i) ==
  {r \in 2..Len(rawLogs) : rawLogs[r] = rawRow(proc[i].data)}

\* the daily_summary rows of a (date, employee)
SummaryRowsOf(date, employeeName) ==
  {r \in 2..Len(dailySummary) :
     /\ dailySummary[r] # <<>>
     /\ dailySummary[r][1] = date
     /\ dailySummary[r][2] = employeeName}

\* the summary row the calculator gives for the rows raw_logs holds now
ExpectedRow(date, employeeName) ==
  rowData(summaryLocals(getDailyLogs(rawLogs, date), date, employeeName).summaryData)

\* a pipeline is between its read of all events and the end of its upsert
InRecompute(i) ==
  proc[i].pc \in {"getDailyLogs", "summaryGet", "summaryClear",
                  "summaryUpdate", "summaryAppend"}

\* C1: once an (eventId, keyword) was delivered two or more times and all its
\* deliveries have finished, raw_logs holds exactly one row for it, exactly
\* one delivery started a summary recomputation, and every delivery after the
\* first returned the duplicate outcome without touching store or sink.
C1_ExactlyOneRowOneRecompute ==
  \A i \in Procs, j \in Procs :
    (i < j /\ Delivered(j) /\ SamePair(i, j)
       /\ \A k \in DeliveriesOf(i) : Done(k))
    => /\ Cardinality(RawRowsOf(i)) = 1
       /\ Cardinality({k \in DeliveriesOf(i) : proc[k].recomputed}) = 1
       /\ proc[j].result = "duplicate"
       /\ ~proc[j].appended /\ ~proc[j].recomputed

\* C2: each isEventProcessed call returns true exactly when an earlier call
\* had the same eventId and the same keyword; calls differing in either do
\* not count. (No eviction: fewer than PROCESSED_LIMIT keys are tracked.)
C2_FalseFirstThenTrue ==
  \A n \in 1..Len(calls) :
    calls[n].result =
      (\E m \in 1..(n - 1) : /\ calls[m].slackTs = calls[n].slackTs
                             /\ calls[m].keyword = calls[n].keyword)

\* C2 witness: a key is called, then a key with the same eventId and another
\* keyword, then the first key again, which alone is reported as processed.
C2_Witness ==
  /\ Len(calls) = 3
  /\ calls[1].slackTs = calls[3].slackTs /\ calls[1].keyword = calls[3].keyword
  /\ calls[2].slackTs = calls[1].slackTs /\ calls[2].keyword # calls[1].keyword
  /\ ~calls[1].result /\ ~calls[2].result /\ calls[3].result

\* C3: once every pipeline has finished (here: none of them failed), the
\* summary row of each (date, employee) that was recomputed exists and is
\* the calculator's result for all raw_logs rows stored for that key.
C3_NoLostUpdate ==
  (\A i \in Procs : Done(i) /\ proc[i].result \in {"logged", "duplicate"})
  => \A i \in Procs :
       proc[i].result = "logged"
       => LET date == proc[i].data.date
              emp  == proc[i].data.employeeName
          IN /\ SummaryRowsOf(date, emp) # {}
             /\ \A r \in SummaryRowsOf(date, emp) :
                  dailySummary[r] = ExpectedRow(date, emp)

\* C4: at most one pipeline per (date, employee) is between its read of all
\* events and the end of its upsert.
C4_SerializedPerKey ==
  \A i \in Procs, j \in Procs :
    (i # j /\ SameDay(i, j)) => ~(InRecompute(i) /\ InRecompute(j))

\* C5: of the deliveries of one (eventId, keyword), however they interleave,
\* at most one is treated as new and appends; the others are duplicates.
C5_AtomicCheckAndMark ==
  \A i \in Procs :
    Delivered(i)
    => /\ Cardinality({k \in DeliveriesOf(i) : proc[k].result # "duplicate"}) <= 1
       /\ Cardinality({k \in DeliveriesOf(i) : proc[k].appended}) <= 1
       /\ Cardinality(RawRowsOf(i)) <= 1

\* C5 witness: the first delivery of a key is still waiting for its append
\* when the second delivery of the same key is turned away as a duplicate.
C5_Witness ==
  \E i \in Procs, j \in Procs :
    /\ i # j /\ SamePair(i, j)
    /\ proc[i].pc = "appendToRawLogs"
    /\ Done(j) /\ proc[j].result = "duplicate"

\* C6: daily_summary holds at most one row per (date, employee).
C6_OneRowPerKey ==
  \A i \in Procs :
    Delivered(i)
    => Cardinality(SummaryRowsOf(proc[i].data.date, proc[i].data.employeeName)) <= 1

\* the keys the calls of cs inserted (the calls answered false), in order
InsertedBy(cs) ==
  LET news == SelectSeq(cs, LAMBDA c : ~c.result)
  IN [k \in 1..Len(news) |-> eventKey(news[k].slackTs, news[k].keyword)]

\* the keys of the longest run a behaviour starts with
LongestRun == TrackedRun(10000)

\* the keys tracked after a run of n0 messages and the calls cs: all keys
\* inserted so far in insertion order, and from the 10,001st insertion on
\* (one trim; the next is 5,001 insertions away) those after the first 5,001
TrackedAfter(n0, cs) ==
  LET inserted == SubSeq(LongestRun, 1, n0) \o InsertedBy(cs)
  IN IF Len(inserted) > 10000 THEN SubSeq(inserted, 5002, Len(inserted))
     ELSE inserted

C15_InsertionOrderEviction ==
  [][/\ calls'[Len(calls')].result => processedEvents' = processedEvents
     /\ \E n0 \in EvictStarts : processedEvents' = TrackedAfter(n0, calls')]_vars

\* C15 witness: with 10,000 keys tracked, the key of message 5001 is looked
\* up and found, then a new key is inserted: the trim drops the key of
\* message 5001 all the same, the keys of messages 5002 on are kept.
C15_Witness ==
  /\ Len(calls) = 2
  /\ calls[1].slackTs = tsOf(5001) /\ calls[1].result
  /\ calls[2].slackTs = TS_0900 /\ ~calls[2].result
  /\ Len(processedEvents) = 5000
  /\ processedEvents[1] = eventKey(tsOf(5002), KW_ENTRY)
  /\ processedEvents[5000] = eventKey(TS_0900, KW_ENTRY)

\* every pipeline is finished or was never started
Quiet == \A k \in Procs : proc[k].pc \in {"idle", "done"}

\* C27: a key is held in the dedup set only if its event is stored: once the
\* deliveries of an (eventId, keyword) have all finished and the key is
\* tracked, raw_logs holds a row of the event.
C27_SeenOnlyIfStored ==
  \A i \in Procs :
    (/\ Delivered(i)
     /\ \A k \in DeliveriesOf(i) : Done(k)
     /\ \E n \in 1..Len(processedEvents) :
          processedEvents[n] = proc[i].data.slackTs \o <<"-">> \o proc[i].data.keyword)
    => RawRowsOf(i) # {}

C23_KeysIndependent ==
  (/\ Quiet
   /\ \A i \in Procs : Delivered(i) => proc[i].result = "logged"
   /\ \A i \in Procs, j \in Procs :
        (i # j /\ Delivered(i) /\ Delivered(j)) => ~SameDay(i, j))
  => \A i \in Procs :
       Delivered(i)
       => LET rows == SummaryRowsOf(proc[i].data.date, proc[i].data.employeeName)
          IN /\ Cardinality(rows) = 1
             /\ \A r \in rows :
                  dailySummary[r] = ExpectedRow(proc[i].data.date,
                                                proc[i].data.employeeName)

\* C16: a recomputation that failed leaves the summary row stored for its
\* (date, employee) as it was. Here: pipeline j stored the row and returned,
\* pipeline i of the same (date, employee) then found that row and failed,
\* and no third pipeline touched the key; the row is still the one j stored.
C16_FailureLeavesRow ==
  \A i \in Procs, j \in Procs :
    (/\ Quiet
     /\ i # j /\ Delivered(i) /\ Delivered(j) /\ SameDay(i, j)
     /\ proc[j].result = "logged"
     /\ proc[i].result = "error" /\ proc[i].rowIndex > 0
     /\ \A k \in Procs \ {i, j} : Delivered(k) => ~SameDay(k, i))
    => /\ proc[i].rowIndex <= Len(dailySummary)
       /\ dailySummary[proc[i].rowIndex] = proc[j].row

\* C17: a step in which a collaborator call of pipeline i rejects (the append
\* to raw_logs, the read of the day's rows, the read of daily_summary, or one
\* of its writes) ends logEvent with a failure thrown to its caller.
C17_FailuresPropagate ==
  [][\A i \in Procs :
       (\/ AppendFail(i) \/ GetDailyLogsFail(i) \/ SummaryGetFail(i)
        \/ SummaryClearFail(i) \/ SummaryUpdateFail(i) \/ SummaryAppendFail(i))
       => proc'[i].result = "error"]_vars

(***************************************************************************)
(* Properties of the calculator                                            *)
(***************************************************************************)
\* the minute of the day an HH:mm:ss string names, read off its digits
MinuteOf(t) ==
  (DigitVal(t[1]) * 10 + DigitVal(t[2])) * 60 + DigitVal(t[4]) * 10 + DigitVal(t[5])

\* the raw_logs rows of the recomputed employee-day with one keyword
StoredRows(keyword) ==
  {r \in 2..Len(rawLogs) : /\ rawLogs[r][1] = CalcDate
                           /\ rawLogs[r][3] = calc.employeeName
                           /\ rawLogs[r][5] = keyword}

RowMinute(r) == MinuteOf(rawLogs[r][2])

Min(S) == CHOOSE x \in S : \A y \in S : x <= y
Max(S) == CHOOSE x \in S : \A y \in S : x >= y

\* the earliest / latest minute among rows
FirstMinute(rows) == Min({RowMinute(r) : r \in rows})
LastMinute(rows)  == Max({RowMinute(r) : r \in rows})

\* the pairs (start row, end row) of the greedy pairing: the earliest start
\* takes the earliest unused end strictly later than it, or stays unmatched
RECURSIVE GreedyPairs(_, _)
GreedyPairs(starts, ends) ==
  IF starts = {} THEN {}
  ELSE LET s     == CHOOSE x \in starts : \A y \in starts : RowMinute(x) <= RowMinute(y)
           later == {e \in ends : RowMinute(e) > RowMinute(s)}
       IN IF later = {} THEN GreedyPairs(starts \ {s}, ends)
          ELSE LET e == CHOOSE x \in later : \A y \in later : RowMinute(x) <= RowMinute(y)
               IN {<<s, e>>} \cup GreedyPairs(starts \ {s}, ends \ {e})

RECURSIVE PairMinutes(_)
PairMinutes(pairs) ==
  IF pairs = {} THEN 0
  ELSE LET p == CHOOSE x \in pairs : TRUE
       IN (RowMinute(p[2]) - RowMinute(p[1])) + PairMinutes(pairs \ {p})

BreakPairs == GreedyPairs(StoredRows(KW_BREAK_START), StoredRows(KW_BREAK_END))

\* end - start in minutes when both sets have rows and end is later, else 0
Window(startRows, endRows, startMinute, endMinute) ==
  IF startRows = {} \/ endRows = {} THEN 0
  ELSE IF endMinute > startMinute THEN endMinute - startMinute ELSE 0

GrossWindow ==
  LET tasks == StoredRows(KW_DAILY_TASK)   reports == StoredRows(KW_DAILY_REPORT)
  IN IF tasks = {} \/ reports = {} THEN 0
     ELSE Window(tasks, reports, FirstMinute(tasks), LastMinute(reports))

LunchWindow ==
  LET starts == StoredRows(KW_LUNCH_START)   ends == StoredRows(KW_LUNCH_END)
  IN IF starts = {} \/ ends = {} THEN 0
     ELSE Window(starts, ends, FirstMinute(starts), FirstMinute(ends))

\* the rows of raw_logs after the header, last row first
ReversedLogs ==
  [k \in 1..(Len(rawLogs) - 1) |-> rawLogs[Len(rawLogs) + 1 - k]]

\* C7: the break total is the sum of end - start over the greedy pairs (each
\* start in ascending time takes the earliest unused end strictly later, an
\* unmatched start adds nothing), and it is the same when the same rows were
\* appended in the opposite order.
C7_GreedyBreakTotal ==
  calc.done
  => /\ calc.locals.breakDuration = PairMinutes(BreakPairs)
     /\ calc.locals.breakDuration =
          summaryLocals(ReversedLogs, CalcDate, calc.employeeName).breakDuration

\* C7 witness: starts 09:00 and 09:30, ends 09:20 and 09:45, appended with
\* the 09:45 end first, give 35 minutes.
C7_Witness ==
  /\ calc.done
  /\ Len(rawLogs) = 5
  /\ rawLogs[2] = logRow("Asha", hm(9, 45), KW_BREAK_END)
  /\ {rawLogs[r] : r \in 2..5}
       = {logRow("Asha", hm(9, 0), KW_BREAK_START), logRow("Asha", hm(9, 30), KW_BREAK_START),
          logRow("Asha", hm(9, 20), KW_BREAK_END), logRow("Asha", hm(9, 45), KW_BREAK_END)}
  /\ calc.locals.breakDuration = 35

\* C8: breakCount is the number of pairs the greedy pairing matched.
C8_BreakCountIsPairCount ==
  calc.done => calc.locals.summaryData.breakCount = Cardinality(BreakPairs)

\* C9: net working minutes = max(0, gross task window - lunch - breaks), with
\* the gross window from the first #daily-task to the last #daily-report; it
\* is never negative and never more than the gross window.
C9_NetWorkingMinutes ==
  calc.done
  => LET net == calc.locals.netWorkingHours
         raw == GrossWindow - LunchWindow - PairMinutes(BreakPairs)
     IN /\ net = (IF raw > 0 THEN raw ELSE 0)
        /\ net >= 0
        /\ net <= GrossWindow

\* C9 witness: task 09:15, report 18:00, no lunch, one break 13:00 to 13:15:
\* 510 minutes, written as 8:30.
C9_Witness ==
  /\ calc.done
  /\ {rawLogs[r] : r \in 2..Len(rawLogs)}
       = {logRow("Asha", hm(9, 15), KW_DAILY_TASK), logRow("Asha", hm(18, 0), KW_DAILY_REPORT),
          logRow("Asha", hm(13, 0), KW_BREAK_START), logRow("Asha", hm(13, 15), KW_BREAK_END)}
  /\ calc.locals.netWorkingHours = 510
  /\ calc.locals.summaryData.netWorkingHours = <<"8", ":", "3", "0">>

\* end - start of two summary times in whole minutes of the day when both
\* are present and end is later, else 0
TimeWindow(startTime, endTime) ==
  IF startTime = Dash \/ endTime = Dash THEN 0
  ELSE IF MinuteOf(endTime) > MinuteOf(startTime)
       THEN MinuteOf(endTime) - MinuteOf(startTime) ELSE 0

\* C10: the presence total (and likewise the gross task window) is end - start
\* in minutes when both times are present and end is later than start, and 0
\* when either is absent or end is not later; it is never negative.
C10_DurationClamped ==
  calc.done
  => LET sd == calc.locals.summaryData
     IN /\ calc.locals.totalHours = TimeWindow(sd.entryTime, sd.exitTime)
        /\ calc.locals.grossWorkingTime = TimeWindow(sd.taskStartTime, sd.taskEndTime)
        /\ calc.locals.totalHours >= 0
        /\ calc.locals.grossWorkingTime >= 0

\* C10 witness: entry 09:00 and exit 18:00 give 540 minutes, written as 9:00.
C10_Witness ==
  /\ calc.done
  /\ calc.locals.summaryData.entryTime = hm(9, 0)
  /\ calc.locals.summaryData.exitTime = hm(18, 0)
  /\ calc.locals.totalHours = 540
  /\ calc.locals.summaryData.totalHours = <<"9", ":", "0", "0">>

\* the second of the day an HH:mm:ss string names
SecondOf(t) == MinuteOf(t) * 60 + DigitVal(t[7]) * 10 + DigitVal(t[8])

\* the time of the earliest / latest of some rows; rows of one employee and
\* keyword differ in their times
EarliestTime(rows) ==
  rawLogs[CHOOSE r \in rows :
            \A q \in rows : SecondOf(rawLogs[r][2]) <= SecondOf(rawLogs[q][2])][2]

LatestTime(rows) ==
  rawLogs[CHOOSE r \in rows :
            \A q \in rows : SecondOf(rawLogs[r][2]) >= SecondOf(rawLogs[q][2])][2]

\* C11: entryTime is the time of the earliest #entry event and exitTime the
\* time of the latest #exit event of the employee-day, taskStartTime and
\* taskEndTime likewise from the earliest #daily-task and the latest
\* #daily-report; a kind with no event gives "-".
C11_FirstEntryLastExit ==
  calc.done
  => LET sd      == calc.locals.summaryData
         entries == StoredRows(KW_ENTRY)
         exits   == StoredRows(KW_EXIT)
         tasks   == StoredRows(KW_DAILY_TASK)
         reports == StoredRows(KW_DAILY_REPORT)
     IN /\ sd.entryTime = (IF entries = {} THEN Dash ELSE EarliestTime(entries))
        /\ sd.exitTime = (IF exits = {} THEN Dash ELSE LatestTime(exits))
        /\ sd.taskStartTime = (IF tasks = {} THEN Dash ELSE EarliestTime(tasks))
        /\ sd.taskEndTime = (IF reports = {} THEN Dash ELSE LatestTime(reports))

\* the stored rows without the lunch rows that are not of the first minute of
\* their kind
FirstLunchRowsOnly ==
  LET starts == StoredRows(KW_LUNCH_START)
      ends   == StoredRows(KW_LUNCH_END)
      keep(r) == /\ r \in starts => RowMinute(r) = FirstMinute(starts)
                 /\ r \in ends => RowMinute(r) = FirstMinute(ends)
      kept   == {r \in 2..Len(rawLogs) : keep(r)}
      RECURSIVE pick(_)
      pick(r) == IF r > Len(rawLogs) THEN <<>>
                 ELSE (IF r \in kept THEN <<rawLogs[r]>> ELSE <<>>) \o pick(r + 1)
  IN pick(2)

\* C12: the lunch minutes are end - start of the earliest #lunchstart and the
\* earliest #lunchend when both exist and the end is later, and 0 when either
\* is missing or the end is not later; the other lunch rows change nothing.
C12_LunchFromFirstStartFirstEnd ==
  calc.done
  => /\ calc.locals.lunchDuration = LunchWindow
     /\ calc.locals.lunchDuration =
          summaryLocals(FirstLunchRowsOnly, CalcDate, calc.employeeName).lunchDuration

\* C12 witness: lunch starts 12:00 and 12:10, lunch ends 12:30 and 13:00 give
\* 30 minutes.
C12_Witness ==
  /\ calc.done
  /\ {rawLogs[r] : r \in 2..Len(rawLogs)}
       = {logRow("Asha", hm(12, 0), KW_LUNCH_START), logRow("Asha", hm(12, 10), KW_LUNCH_START),
          logRow("Asha", hm(12, 30), KW_LUNCH_END), logRow("Asha", hm(13, 0), KW_LUNCH_END)}
  /\ rawLogs[2] = logRow("Asha", hm(13, 0), KW_LUNCH_END)
  /\ calc.locals.lunchDuration = 30
  /\ calc.locals.summaryData.lunchDuration = <<"0", ":", "3", "0">>

\* C13: the summary is the same for every order in which the same rows could
\* have been appended.
C13_OrderIndependent ==
  calc.done
  => LET n == Len(rawLogs) - 1
     IN \A p \in Permutations(1..n) :
          summaryLocals([k \in 1..n |-> rawLogs[p[k] + 1]], CalcDate,
                        calc.employeeName).summaryData
            = calc.locals.summaryData

\* a string of the form HH:mm or HH:mm:ss
WellFormedTime(t) ==
  /\ Len(t) \in {5, 8}
  /\ \A k \in {1, 2, 4, 5} : IsDigit(t[k])
  /\ t[3] = ":"
  /\ Len(t) = 8 => t[6] = ":" /\ IsDigit(t[7]) /\ IsDigit(t[8])

\* the employee-day has a stored row whose time cannot be parsed
HasMalformedTime(employeeName) ==
  \E r \in 2..Len(rawLogs) :
    /\ rawLogs[r][1] = CalcDate
    /\ rawLogs[r][3] = employeeName
    /\ ~WellFormedTime(rawLogs[r][2])

\* C18: for an employee-day with a stored row whose time is unparseable the
\* recomputation fails and no summary row is written.
C18_MalformedTimeFails ==
  \A employeeName \in {"Asha", "Ravi"} :
    HasMalformedTime(employeeName) => SummaryRowsOf(CalcDate, employeeName) = {}

RECURSIVE SumBreakTime(_)
SumBreakTime(logged) ==
  IF logged = <<>> THEN 0 ELSE Head(logged).breakTime + SumBreakTime(Tail(logged))

\* C28: in calculateBreakDuration no break end is paired with two starts and
\* no start with two ends, the end of each pair is strictly later than its
\* start, there are at most min(starts, ends) pairs, and the break minutes
\* are the sum of the pairs' durations, each of them positive.
C28_PairingInvariants ==
  calc.done
  => LET userLogs == calc.locals.userLogs
         starts   == breakEventsOf(userLogs, KW_BREAK_START)
         ends     == breakEventsOf(userLogs, KW_BREAK_END)
         pairs    == loggedBreaks(userLogs)
     IN /\ \A m \in 1..Len(pairs), n \in 1..Len(pairs) :
             m # n => pairs[m].start # pairs[n].start /\ pairs[m].end # pairs[n].end
        /\ \A m \in 1..Len(pairs) :
             /\ pairs[m].start \in 1..Len(starts) /\ pairs[m].end \in 1..Len(ends)
             /\ MinuteOf(ends[pairs[m].end].time) > MinuteOf(starts[pairs[m].start].time)
             /\ pairs[m].breakTime
                  = MinuteOf(ends[pairs[m].end].time) - MinuteOf(starts[pairs[m].start].time)
             /\ pairs[m].breakTime > 0
        /\ Len(pairs) <= Len(starts) /\ Len(pairs) <= Len(ends)
        /\ calc.locals.breakDuration = SumBreakTime(pairs)

\* C28 witness: starts 09:00, 09:30 and 16:00 with ends 09:20 and 09:45 give
\* two pairs of 20 and 15 minutes; the start of 16:00 stays without an end.
C28_Witness ==
  /\ calc.done
  /\ {rawLogs[r] : r \in 2..Len(rawLogs)}
       = {logRow("Asha", hm(9, 0), KW_BREAK_START), logRow("Asha", hm(9, 30), KW_BREAK_START),
          logRow("Asha", hm(16, 0), KW_BREAK_START),
          logRow("Asha", hm(9, 20), KW_BREAK_END), logRow("Asha", hm(9, 45), KW_BREAK_END)}
  /\ loggedBreaks(calc.locals.userLogs)
       = <<[start |-> 1, end |-> 1, breakTime |-> 20],
           [start |-> 2, end |-> 2, breakTime |-> 15]>>
  /\ calc.locals.breakDuration = 35

(***************************************************************************)
(* Properties of the helpers                                               *)
(***************************************************************************)
\* the keywords in the fixed enumeration order
EnumerationOrder ==
  <<KW_ENTRY, KW_EXIT, KW_DAILY_TASK, KW_DAILY_REPORT,
    KW_LUNCH_START, KW_LUNCH_END, KW_BREAK_START, KW_BREAK_END>>

\* c is the character d or the capital of the letter d
SameLetter(c, d) == c = d \/ \E k \in 1..26 : UpperCase[k] = c /\ LowerCase[k] = d

\* the keyword occurs in the text, the case of the text's letters aside
Occurs(keyword, text) ==
  \E i \in 0..(Len(text) - Len(keyword)) :
    \A j \in 1..Len(keyword) : SameLetter(text[i + j], keyword[j])

\* C19: extractKeyword returns the first keyword of the enumeration order
\* that occurs in the lower-cased text, and null when none occurs; the call
\* leaves the dedup set and the sheets as they were.
C19_FirstKeywordInOrder ==
  util.fn = "extractKeyword"
  => LET hits == {k \in 1..Len(EnumerationOrder) : Occurs(EnumerationOrder[k], util.text)}
     IN /\ util.result = (IF hits = {} THEN null ELSE EnumerationOrder[Min(hits)])
        /\ processedEvents = <<>>
        /\ rawLogs = <<RAW_HEADER>>
        /\ dailySummary = <<SUMMARY_HEADER>>

\* C19 witness: the text "#EXIT#entry" gives #entry, the earlier keyword of
\* the enumeration, although #exit stands first in the text.
C19_Witness ==
  /\ util.fn = "extractKeyword"
  /\ util.text = <<"#", "E", "X", "I", "T", "#", "e", "n", "t", "r", "y">>
  /\ util.result = KW_ENTRY

\* C20: formatDuration(m) is H:MM with H = floor(m / 60) written without a
\* leading zero and MM = m mod 60 written with exactly two digits, so that
\* H * 60 + MM = m; formatDuration(0) is 0:00.
C20_FormatRoundTrip ==
  util.fn = "formatDuration"
  => LET m     == util.minutes
         parts == Split(util.result, ":")
     IN /\ Len(parts) = 2
        /\ Len(parts[1]) >= 1 /\ \A k \in 1..Len(parts[1]) : IsDigit(parts[1][k])
        /\ Len(parts[1]) > 1 => parts[1][1] # "0"
        /\ Len(parts[2]) = 2 /\ IsDigit(parts[2][1]) /\ IsDigit(parts[2][2])
        /\ parseInt(parts[1]) = m \div 60
        /\ parseInt(parts[2]) = m % 60
        /\ parseInt(parts[1]) * 60 + parseInt(parts[2]) = m
        /\ m = 0 => util.result = <<"0", ":", "0", "0">>

\* C20 witness: 65 minutes are written 1:05.
C20_Witness ==
  /\ util.fn = "formatDuration"
  /\ util.minutes = 65
  /\ util.result = <<"1", ":", "0", "5">>

(***************************************************************************)
(* Properties of the request handling                                      *)
(***************************************************************************)
\* the timestamps within the replay window of the current time
FreshTimestamps ==
  {toString(t) : t \in (currentTime - REPLAY_WINDOW)..(currentTime + REPLAY_WINDOW)}

\* both headers are there, the timestamp is fresh and the signature is the
\* one Slack's secret gives for this timestamp and this body
Verified(req) ==
  /\ req.signature # NoSignature
  /\ req.timestamp # <<>>
  /\ req.timestamp \in FreshTimestamps
  /\ req.signature.bytes = SIGNATURE_BYTES
  /\ req.signature.secret = SLACK_SIGNING_SECRET
  /\ req.signature.timestamp = req.timestamp
  /\ req.signature.rawBody = req.rawBody

\* an event callback whose event is not a user's keyword message
FilteredOut(body) ==
  /\ body.type = "event_callback"
  /\ body.event # NoEvent
  /\ \/ body.event.type # "message"
     \/ body.event.bot_id # ""
     \/ body.event.subtype # ""
     \/ body.event.text = <<>>
     \/ body.event.user = ""
     \/ \A k \in 1..Len(EnumerationOrder) : ~Occurs(EnumerationOrder[k], body.event.text)

\* nothing was looked up, checked, stored or computed for request i
NoOperation(i) ==
  /\ proc[i].pc = "done"
  /\ proc[i].data = NoData
  /\ ~proc[i].appended
  /\ proc[i].userLogs = <<>> /\ proc[i].row = <<>> /\ proc[i].rowIndex = 0

\* C26: a request gets past verifySlackRequest only if it is verified (both
\* headers, timestamp within 300 seconds, signature of the raw body); a
\* request that is not verified is answered 401 and nothing is done for it.
C26_OnlyVerifiedRequestsHandled ==
  \A i \in Procs :
    Delivered(i)
    => /\ proc[i].result # "rejected" => Verified(proc[i].req)
       /\ ~Verified(proc[i].req) => proc[i].response.status = 401 /\ NoOperation(i)

\* the pipeline of request i has a lookup, a dedup check, a store or a sink
\* call behind it or in flight
Processing(p) == p.pc \notin {"idle", "done"} \/ p.data # NoData

\* C25: a verified event_callback is answered 200 with an empty body; the
\* answer is there as soon as any operation of the event has started, and no
\* later step changes it. A verified url_verification is answered with its
\* challenge in the step it arrives, which ends it and touches no store.
C25_AckBeforeProcessing ==
  [][\A i \in Procs :
       /\ proc[i].response # NoResponse => proc'[i].response = proc[i].response
       /\ Processing(proc'[i]) => proc'[i].response = [status |-> 200, body |-> ""]
       /\ (/\ proc'[i].pc # "idle"
           /\ Verified(proc'[i].req)
           /\ proc'[i].req.rawBody.type = "event_callback")
          => proc'[i].response = [status |-> 200, body |-> ""]
       /\ (/\ proc'[i].pc # "idle"
           /\ Verified(proc'[i].req)
           /\ proc'[i].req.rawBody.type = "url_verification")
          => /\ proc'[i].response
                  = [status |-> 200, body |-> proc'[i].req.rawBody.challenge]
             /\ proc'[i].pc = "done" /\ ~Processing(proc'[i])
             /\ proc[i].pc = "idle"
                  => UNCHANGED <<processedEvents, rawLogs, dailySummary, calls>>]_vars

\* C25 witness: a request was answered 200 and its pipeline failed later;
\* another request was answered with its challenge.
C25_Witness ==
  \E i \in Procs, j \in Procs :
    /\ proc[i].result = "error"
    /\ proc[i].response = [status |-> 200, body |-> ""]
    /\ proc[j].req.rawBody.type = "url_verification"
    /\ proc[j].response = [status |-> 200, body |-> "challenge-1"]

\* C21: the step that receives a verified event that is filtered out leaves
\* the dedup set, raw_logs, daily_summary and the record of dedup calls as
\* they were and ends the event's handling with no call in flight; no later
\* step does anything for it.
C21_FilteredEventsLeaveNoTrace ==
  [][\A i \in Procs :
       (/\ proc'[i].pc # "idle"
        /\ Verified(proc'[i].req)
        /\ FilteredOut(proc'[i].req.rawBody))
       => /\ proc'[i].pc = "done"
          /\ proc'[i].data = NoData
          /\ ~proc'[i].appended
          /\ proc'[i].userLogs = <<>> /\ proc'[i].row = <<>>
          /\ proc[i].pc = "idle"
               => UNCHANGED <<processedEvents, rawLogs, dailySummary, calls>>
          /\ proc[i].pc # "idle" => proc'[i] = proc[i]]_vars

\* C21 witness: a bot message carrying #entry was received and dropped while
\* the event of another request is stored.
C21_Witness ==
  \E i \in Procs, j \in Procs :
    /\ Verified(proc[i].req)
    /\ proc[i].req.rawBody.event.bot_id # ""
    /\ Occurs(KW_ENTRY, proc[i].req.rawBody.event.text)
    /\ NoOperation(i)
    /\ proc[j].appended

\* the text of request i holds the keyword its pipeline carries
Classified(i) ==
  /\ \E k \in 1..Len(EnumerationOrder) : proc[i].data.keyword = EnumerationOrder[k]
  /\ Occurs(proc[i].data.keyword, proc[i].req.rawBody.event.text)

\* the dedup check of pipeline i was made and found the event new
Deduplicated(i) ==
  \E n \in 1..Len(calls) :
    calls[n] = [slackTs |-> proc[i].data.slackTs, keyword |-> proc[i].data.keyword,
                result |-> FALSE]

\* C22: a pipeline waiting for its append has classified and deduplicated
\* its event; a pipeline that reads raw_logs for the summary, or reads or
\* writes daily_summary, or has done so, has its event's row in raw_logs; a
\* pipeline whose append did not succeed has read and written no summary;
\* and every daily_summary row is for the key of an event whose append
\* succeeded.
C22_PipelineOrder ==
  /\ \A i \in Procs :
       /\ proc[i].pc \in {"usersInfo", "conversationsInfo"}
            => Classified(i) /\ proc[i].data.slackTs = <<>> /\ ~proc[i].appended
       /\ proc[i].pc = "appendToRawLogs"
            => Classified(i) /\ Deduplicated(i) /\ ~proc[i].appended
       /\ (\/ proc[i].pc \in {"getDailyLogs", "summaryGet", "summaryClear",
                              "summaryUpdate", "summaryAppend"}
           \/ proc[i].userLogs # <<>> \/ proc[i].row # <<>> \/ proc[i].rowIndex > 0
           \/ proc[i].result \in {"logged", "logged-null"})
            => /\ Classified(i) /\ Deduplicated(i)
               /\ proc[i].appended /\ RawRowsOf(i) # {}
       /\ ~proc[i].appended
            => proc[i].userLogs = <<>> /\ proc[i].row = <<>> /\ proc[i].rowIndex = 0
  /\ \A r \in 2..Len(dailySummary) :
       dailySummary[r] # <<>>
       => \E i \in Procs :
            /\ proc[i].appended
            /\ dailySummary[r][1] = proc[i].data.date
            /\ dailySummary[r][2] = proc[i].data.employeeName

\* C22 witness: one pipeline went through all four steps and returned its
\* summary; the append of another was rejected and it ended there.
C22_Witness ==
  \E i \in Procs, j \in Procs :
    /\ proc[i].result = "logged"
    /\ SummaryRowsOf(proc[i].data.date, proc[i].data.employeeName) # {}
    /\ proc[j].result = "error" /\ Deduplicated(j) /\ ~proc[j].appended

====
